---- MODULE Spec2Model ----
(***************************************************************************)
(* The product-store server: bootstrap (route import, middleware           *)
(* registration, initDB, production catch-all, listen), the middleware     *)
(* stack every request walks (express.json, cors, helmet, morgan, the      *)
(* arcjet rate-limit/bot stage), the dispatcher routes (/test-path, the    *)
(* /api/products router, /api/test, express.static, the catch-all) and the *)
(* product store the route handlers act on.                                *)
(*                                                                         *)
(* Strings the code inspects are modelled by what is inspected: a          *)
(* User-Agent is a sequence of characters (toLowerCase and includes work   *)
(* on it), a request path is the sequence of its segments ("/api/test" is  *)
(* <<"api","test">>, "/" is <<>>).  An absent value (an unset environment  *)
(* variable, a missing header, no decision yet) is the empty sequence and  *)
(* a present one v is <<v>>.                                               *)
(***************************************************************************)
EXTENDS Integers, Sequences, FiniteSets, TLC

\* Requests the server holds at once (accepted and not yet closed).
MaxInFlight == 1
\* Product ids the SERIAL column hands out in a run.
MaxId == 2

VARIABLES
  env,            \* process.env.NODE_ENV: <<>> when unset, else <<value>>
  dist,           \* the files present in ../frontend/dist
  routesFile,     \* the module "./routes/productRoutes.js" resolves to
  bootPc,         \* where the module body / bootstrap promise chain stands
  productRoutes,  \* server.js's `productRoutes` binding: <<>> is undefined
  dbInit,         \* the CREATE TABLE statement: "pending", "ok" or "failed"
  stack,          \* app's middleware stack, in registration order
  products,       \* ids of the rows of table products
  nextId,         \* next value of the SERIAL sequence
  deleted,        \* history: ids whose DELETE has been answered 200
  reqs            \* the in-flight requests, by connection slot

vars == <<env, dist, routesFile, bootPc, productRoutes, dbInit, stack,
          products, nextId, deleted, reqs>>

Slots == 1..MaxInFlight

-----------------------------------------------------------------------------
(* Strings *)

UpperChars ==
  <<"A","B","C","D","E","F","G","H","I","J","K","L","M",
    "N","O","P","Q","R","S","T","U","V","W","X","Y","Z">>

LowerChars ==
  <<"a","b","c","d","e","f","g","h","i","j","k","l","m",
    "n","o","p","q","r","s","t","u","v","w","x","y","z">>

\* String.prototype.toLowerCase, one character.
ToLowerChar(c) ==
  IF \E i \in 1..Len(UpperChars) : UpperChars[i] = c
    THEN LowerChars[CHOOSE i \in 1..Len(UpperChars) : UpperChars[i] = c]
    ELSE c

\* String.prototype.toLowerCase.
ToLowerCase(s) == [i \in 1..Len(s) |-> ToLowerChar(s[i])]

\* String.prototype.includes.
Includes(s, sub) ==
  \E i \in 0..(Len(s) - Len(sub)) : SubSeq(s, i + 1, i + Len(sub)) = sub

\* String.prototype.startsWith('/api/') on a path given by its segments: the
\* first segment is "api" and something follows the slash after it.
StartsWithApi(path) == Len(path) >= 2 /\ path[1] = "api"

\* The literal 'postman' of the bypass test.
Postman == <<"p","o","s","t","m","a","n">>

\* Decimal text of the product ids, as they appear in a path segment.
IdText == <<"1","2","3","4","5","6">>

\* The id a path segment denotes (0: not the text of an id in range).
ParseId(seg) ==
  IF \E i \in 1..Len(IdText) : IdText[i] = seg
    THEN CHOOSE i \in 1..Len(IdText) : IdText[i] = seg
    ELSE 0

-----------------------------------------------------------------------------
(* Inputs *)

Production == <<"production">>
Development == <<"development">>
EnvUnset == <<>>
Envs == {Production, Development, EnvUnset}

IndexHtml == "index.html"
Dists == {{}, {IndexHtml, "app.js"}}

Methods == {"GET", "POST", "PUT", "DELETE", "OPTIONS"}

ProductPath(i) == <<"api", "products", IdText[i]>>

Paths ==
  {<<>>, <<"test-path">>, <<"api", "test">>, <<"api", "products">>,
   <<"app.js">>, <<"dashboard">>}
    \cup {ProductPath(i) : i \in 1..MaxId}

UaPostmanRuntime ==
  <<"P","o","s","t","m","a","n","R","u","n","t","i","m","e","/","7">>
UaMozilla == <<"M","o","z","i","l","l","a","/","5",".","0">>

\* The user-agent header: absent, or present with a value.
UserAgents == {<<>>, <<UaPostmanRuntime>>, <<UaMozilla>>}

\* The request payload as sent: none, JSON with name/image/price, JSON
\* lacking a required field, or text that is not JSON.
RawBodies(method) ==
  IF method \in {"POST", "PUT"} THEN {"valid", "missing", "malformed"}
  ELSE {"none"}

RateLimitReason == [kind |-> "RATE_LIMIT", spoofed |-> FALSE]
BotReason == [kind |-> "BOT", spoofed |-> FALSE]
SpoofedBotReason == [kind |-> "BOT", spoofed |-> TRUE]
ShieldReason == [kind |-> "SHIELD", spoofed |-> FALSE]

\* decision.results: one entry per rule that ran.
ResultLists ==
  {<<>>,
   <<[reason |-> RateLimitReason], [reason |-> BotReason]>>,
   <<[reason |-> RateLimitReason], [reason |-> SpoofedBotReason]>>}

\* The decision objects aj.protect resolves with.
Decisions ==
  [denied : BOOLEAN,
   reason : {RateLimitReason, BotReason, SpoofedBotReason, ShieldReason},
   results : ResultLists]

-----------------------------------------------------------------------------
(* Requests *)

\* A connection slot holding no request.
FreeSlot ==
  [pc |-> "free", method |-> "GET", path |-> <<>>, ua |-> <<>>,
   raw |-> "none", body |-> "undefined", idx |-> 1, err |-> <<>>,
   armed |-> FALSE, lines |-> 0, protectCalls |-> 0, requested |-> 0,
   decision |-> <<>>, thrown |-> FALSE, admitted |-> FALSE,
   handler |-> "none", status |-> 0, payload |-> "", by |-> "none",
   trace |-> <<>>, acao |-> FALSE, hardened |-> FALSE, after |-> {}]

\* A request as the HTTP server hands it to app: nothing has run on it yet.
\* `after` is history: the ids already deleted (answered 200) on arrival.
NewRequest(method, path, ua, raw, del) ==
  [FreeSlot EXCEPT !.pc = "stack", !.method = method, !.path = path,
                   !.ua = ua, !.raw = raw, !.after = del]

\* req.headers['user-agent'] || ''
UserAgent(req) == IF req.ua = <<>> THEN <<>> ELSE req.ua[1]

\* History: the function of layer `name` was invoked on the request.
Visit(req, name) == [req EXCEPT !.trace = Append(@, name)]

\* next(): the router goes on to the layer after this one.
PassOn(req) == [req EXCEPT !.idx = @ + 1]

\* next(err): the router skips every layer that is not an error handler; app
\* registers none, so the request goes to the final handler with the error.
PassError(req, e, depth) == [req EXCEPT !.err = <<e>>, !.idx = depth + 1]

\* res.status(status) and a send of `payload` by layer `by`.
Respond(req, by, status, payload) ==
  [req EXCEPT !.pc = "responded", !.by = by, !.status = status,
              !.payload = payload]

-----------------------------------------------------------------------------
(* Bootstrap *)

\* A faulty registration order: the diagnostic route ahead of the arcjet stage.
BaseStackRouteFirst ==
  <<"json", "cors", "helmet", "morgan", "testPath", "arcjet",
    "productRoutes", "apiTest", "static">>

\* Layers registered while the module body runs, in order.
BaseStack ==
  <<"json", "cors", "helmet", "morgan", "arcjet",
    "testPath", "productRoutes", "apiTest", "static">>

\* The layers registered before app.use("/api/products", productRoutes).
StackBeforeRoutes == SubSeq(BaseStack, 1, 6)

\* A faulty registration: the catch-all in every environment.
StackAfterInitAnyEnv(nodeEnv, base) == Append(base, "fallback")

\* The .then callback's registration: the catch-all, in production only.
StackAfterInit(nodeEnv, base) ==
  IF nodeEnv = Production THEN Append(base, "fallback") ELSE base

\* A faulty bootstrap: listen not chained on initDB's promise.
ThenReadyUnchained == TRUE

\* The callback of initDB().then runs once initDB's promise has resolved;
\* initDB catches the statement's failure, so it resolves either way.
ThenReady == dbInit # "pending"

\* The dynamic import of ./routes/productRoutes.js and its try/catch.
ImportRoutes ==
  /\ bootPc = "import"
  /\ \E ok \in BOOLEAN :
       productRoutes' = IF ok THEN <<routesFile>> ELSE <<>>
  /\ bootPc' = "setup"
  /\ UNCHANGED <<env, dist, routesFile, dbInit, stack, products, nextId,
                 deleted, reqs>>

\* The module body: app.use / app.get in order, then the call of initDB.
\* app.use(path, undefined) throws, which ends the process.
Setup ==
  /\ bootPc = "setup"
  /\ stack' = IF productRoutes = <<>> THEN StackBeforeRoutes ELSE BaseStack
  /\ bootPc' = IF productRoutes = <<>> THEN "crashed" ELSE "initDB"
  /\ UNCHANGED <<env, dist, routesFile, productRoutes, dbInit, products,
                 nextId, deleted, reqs>>

\* initDB: the CREATE TABLE IF NOT EXISTS statement settles.
InitDBSettles ==
  /\ bootPc \in {"initDB", "listening"}
  /\ dbInit = "pending"
  /\ \E ok \in BOOLEAN : dbInit' = IF ok THEN "ok" ELSE "failed"
  /\ UNCHANGED <<env, dist, routesFile, bootPc, productRoutes, stack,
                 products, nextId, deleted, reqs>>

\* The callback of initDB().then: the catch-all, then app.listen.
ThenCallback ==
  /\ bootPc = "initDB"
  /\ ThenReady
  /\ stack' = StackAfterInit(env, stack)
  /\ bootPc' = "listening"
  /\ UNCHANGED <<env, dist, routesFile, productRoutes, dbInit, products,
                 nextId, deleted, reqs>>

-----------------------------------------------------------------------------
(* The middleware stack *)

\* Slot s holds a request whose next layer is `name`.
AtLayer(s, name) ==
  /\ reqs[s].pc = "stack"
  /\ reqs[s].idx <= Len(stack)
  /\ stack[reqs[s].idx] = name

Only(s, req) ==
  /\ reqs' = [reqs EXCEPT ![s] = req]
  /\ UNCHANGED <<env, dist, routesFile, bootPc, productRoutes, dbInit,
                 stack, products, nextId, deleted>>

\* A request arrives on a listening server.
Arrive(s) ==
  /\ bootPc = "listening"
  /\ reqs[s].pc = "free"
  /\ \E method \in Methods, path \in Paths, ua \in UserAgents :
       \E raw \in RawBodies(method) :
         Only(s, NewRequest(method, path, ua, raw, deleted))

\* express.json(): req.body is the parsed payload ({} when there is none);
\* a payload that does not parse is next(err) with status 400.
JsonParser(req, depth) ==
  IF req.raw = "malformed"
    THEN PassError(Visit(req, "json"), [status |-> 400], depth)
    ELSE PassOn([Visit(req, "json") EXCEPT
                   !.body = IF req.raw = "none" THEN "empty" ELSE req.raw])

JsonMw(s) ==
  /\ AtLayer(s, "json")
  /\ Only(s, JsonParser(reqs[s], Len(stack)))

\* cors(): Access-Control-Allow-Origin: *; an OPTIONS request is answered
\* 204 here (preflightContinue is off by default).
Cors(req) ==
  IF req.method = "OPTIONS"
    THEN Respond([Visit(req, "cors") EXCEPT !.acao = TRUE], "cors", 204, "")
    ELSE PassOn([Visit(req, "cors") EXCEPT !.acao = TRUE])

CorsMw(s) ==
  /\ AtLayer(s, "cors")
  /\ Only(s, Cors(reqs[s]))

\* helmet({contentSecurityPolicy: false}): response headers, then next().
Helmet(req) == PassOn([Visit(req, "helmet") EXCEPT !.hardened = TRUE])

HelmetMw(s) ==
  /\ AtLayer(s, "helmet")
  /\ Only(s, Helmet(reqs[s]))

\* morgan("dev"): attaches its listener for the end of the response, then
\* next(); the line is written when the response has finished.
Morgan(req) == PassOn([Visit(req, "morgan") EXCEPT !.armed = TRUE])

MorganMw(s) ==
  /\ AtLayer(s, "morgan")
  /\ Only(s, Morgan(reqs[s]))

-----------------------------------------------------------------------------
(* The arcjet rate-limit / bot stage *)

\* A faulty bypass: the User-Agent test without the environment test.
BypassArcjetAnyEnv(nodeEnv, req) ==
  Includes(ToLowerCase(UserAgent(req)), Postman)

\* process.env.NODE_ENV !== 'production' && ua.toLowerCase().includes('postman')
BypassArcjet(nodeEnv, req) ==
  nodeEnv # Production /\ Includes(ToLowerCase(UserAgent(req)), Postman)

\* A faulty spoof test: isBot() without isSpoofed().
SomeBot(results) ==
  \E i \in 1..Len(results) : results[i].reason.kind = "BOT"

\* decision.results.some(r => r.reason.isBot() && r.reason.isSpoofed())
SomeSpoofedBot(results) ==
  \E i \in 1..Len(results) :
    results[i].reason.kind = "BOT" /\ results[i].reason.spoofed

\* The middleware up to its await: the bypass, or the call of aj.protect.
ArcjetEnter(nodeEnv, req) ==
  IF BypassArcjet(nodeEnv, req)
    THEN PassOn([Visit(req, "arcjet") EXCEPT !.admitted = TRUE])
    ELSE [Visit(req, "arcjet") EXCEPT !.pc = "awaitProtect",
                                      !.protectCalls = @ + 1,
                                      !.requested = @ + 1]

\* The middleware after the await, on the decision aj.protect resolved with.
ArcjetDecide(req, d) ==
  IF d.denied
    THEN IF d.reason.kind = "RATE_LIMIT"
           THEN Respond(req, "arcjet", 429, "Too Many Requests")
         ELSE IF d.reason.kind = "BOT"
           THEN Respond(req, "arcjet", 403, "Bot access denied")
         ELSE Respond(req, "arcjet", 403, "Forbidden")
  ELSE IF SomeSpoofedBot(d.results)
    THEN Respond(req, "arcjet", 403, "Spoofed bot detected")
  ELSE PassOn([req EXCEPT !.pc = "stack", !.admitted = TRUE])

\* A faulty catch block: next() without the error (fail open).
ArcjetCatchFailOpen(req, depth) ==
  PassOn([req EXCEPT !.pc = "stack", !.thrown = TRUE, !.admitted = TRUE])

\* The catch block: next(error); the error carries no status of its own.
ArcjetCatch(req, depth) ==
  PassError([req EXCEPT !.pc = "stack", !.thrown = TRUE],
            [status |-> 0], depth)

ArcjetMw(s) ==
  /\ AtLayer(s, "arcjet")
  /\ Only(s, ArcjetEnter(env, reqs[s]))

ProtectReturns(s) ==
  /\ reqs[s].pc = "awaitProtect"
  /\ \E d \in Decisions :
       Only(s, ArcjetDecide([reqs[s] EXCEPT !.decision = <<d>>], d))

ProtectThrows(s) ==
  /\ reqs[s].pc = "awaitProtect"
  /\ Only(s, ArcjetCatch(reqs[s], Len(stack)))

-----------------------------------------------------------------------------
(* The dispatcher *)

\* app.get("/test-path", ...): the introspection of the dist directory.
TestPath(req, files) ==
  IF req.method = "GET" /\ req.path = <<"test-path">>
    THEN Respond(Visit(req, "testPath"), "testPath", 200,
                 IF IndexHtml \in files THEN "exists" ELSE "missing")
    ELSE PassOn(req)

TestPathRoute(s) ==
  /\ AtLayer(s, "testPath")
  /\ Only(s, TestPath(reqs[s], dist))

\* The route tables of the two router modules, in registration order.
RoutesOfProductRoutesJs ==
  <<[method |-> "GET", pattern |-> "/", handler |-> "getAllProducts"],
    [method |-> "POST", pattern |-> "/", handler |-> "createProduct"]>>

\* A faulty table: GET "/:id" registered with the list handler.
RoutesOfPart000ListForOne ==
  <<[method |-> "GET", pattern |-> "/", handler |-> "getProducts"],
    [method |-> "GET", pattern |-> "/:id", handler |-> "getProducts"],
    [method |-> "POST", pattern |-> "/", handler |-> "createProduct"],
    [method |-> "PUT", pattern |-> "/:id", handler |-> "updateProduct"],
    [method |-> "DELETE", pattern |-> "/:id", handler |-> "deleteProduct"]>>

RoutesOfPart000 ==
  <<[method |-> "GET", pattern |-> "/", handler |-> "getProducts"],
    [method |-> "GET", pattern |-> "/:id", handler |-> "getProduct"],
    [method |-> "POST", pattern |-> "/", handler |-> "createProduct"],
    [method |-> "PUT", pattern |-> "/:id", handler |-> "updateProduct"],
    [method |-> "DELETE", pattern |-> "/:id", handler |-> "deleteProduct"]>>

RoutesOf(file) ==
  IF file = "backend/routes/productRoutes.js" THEN RoutesOfProductRoutesJs
  ELSE RoutesOfPart000

\* A route pattern against the path below the mount point.
PatternMatches(pattern, sub) ==
  IF pattern = "/" THEN sub = <<>> ELSE Len(sub) = 1

\* The first route of the table for the method and path; 0 when none is.
RouteMatch(routes, method, sub) ==
  LET hits == {i \in 1..Len(routes) :
                 /\ routes[i].method = method
                 /\ PatternMatches(routes[i].pattern, sub)}
  IN IF hits = {} THEN 0
     ELSE CHOOSE i \in hits : \A j \in hits : i <= j

\* The mount path "/api/products" against the request path.
UnderProducts(path) ==
  Len(path) >= 2 /\ path[1] = "api" /\ path[2] = "products"

\* app.use("/api/products", productRoutes): the router runs on the paths
\* under the mount point; a matching route's handler starts (its store
\* statement is awaited), and without one the router calls next().
ProductRouter(req, routes) ==
  IF ~UnderProducts(req.path) THEN PassOn(req)
  ELSE LET sub == SubSeq(req.path, 3, Len(req.path))
           hit == RouteMatch(routes, req.method, sub)
       IN IF hit = 0 THEN PassOn(Visit(req, "productRoutes"))
          ELSE [Visit(req, "productRoutes") EXCEPT
                  !.pc = "awaitSql", !.handler = routes[hit].handler]

ProductRoutesMw(s) ==
  /\ AtLayer(s, "productRoutes")
  /\ Only(s, ProductRouter(reqs[s], RoutesOf(productRoutes[1])))

\* The product handlers (controllers/productContorller.js): what the
\* handler's one statement does to the store and the status it answers.
HandlerResult(req, sqlOk, rows, next, del) ==
  LET id == ParseId(req.path[Len(req.path)])
      same == [status |-> 0, rows |-> rows, next |-> next, del |-> del]
  IN CASE req.handler \in {"getAllProducts", "getProducts"} ->
            [same EXCEPT !.status = IF sqlOk THEN 200 ELSE 500]
       [] req.handler = "getProduct" ->
            [same EXCEPT !.status = IF ~sqlOk THEN 500
                                    ELSE IF id \in rows THEN 200 ELSE 404]
       [] req.handler = "createProduct" ->
            IF req.body # "valid" THEN [same EXCEPT !.status = 400]
            ELSE IF ~sqlOk THEN [same EXCEPT !.status = 500]
            ELSE [same EXCEPT !.status = 201, !.rows = rows \cup {next},
                              !.next = next + 1]
       [] req.handler = "updateProduct" ->
            IF req.body # "valid" THEN [same EXCEPT !.status = 400]
            ELSE IF ~sqlOk THEN [same EXCEPT !.status = 500]
            ELSE [same EXCEPT !.status = IF id \in rows THEN 200 ELSE 404]
       [] req.handler = "deleteProduct" ->
            IF ~sqlOk THEN [same EXCEPT !.status = 500]
            ELSE IF id \in rows
              THEN [same EXCEPT !.status = 200, !.rows = rows \ {id},
                                !.del = del \cup {id}]
            ELSE [same EXCEPT !.status = 404]

\* The handler's statement settles and the handler answers.
Handler(s) ==
  /\ reqs[s].pc = "awaitSql"
  /\ \E sqlOk \in BOOLEAN :
       LET out == HandlerResult(reqs[s], sqlOk, products, nextId, deleted)
       IN /\ out.next <= MaxId + 1
          /\ products' = out.rows
          /\ nextId' = out.next
          /\ deleted' = out.del
          /\ reqs' = [reqs EXCEPT ![s] =
                        Respond(reqs[s], reqs[s].handler, out.status, "json")]
  /\ UNCHANGED <<env, dist, routesFile, bootPc, productRoutes, dbInit, stack>>

\* app.get("/api/test", ...)
ApiTest(req) ==
  IF req.method = "GET" /\ req.path = <<"api", "test">>
    THEN Respond(Visit(req, "apiTest"), "apiTest", 200, "API is working")
    ELSE PassOn(req)

ApiTestRoute(s) ==
  /\ AtLayer(s, "apiTest")
  /\ Only(s, ApiTest(reqs[s]))

\* The file of dist a path names: "/" is the directory's index.html.
StaticFile(path) ==
  IF path = <<>> THEN IndexHtml
  ELSE IF Len(path) = 1 THEN path[1]
  ELSE "(nested)"

\* express.static(distPath): a GET of an existing file is served; anything
\* else falls through.
Static(req, files) ==
  IF req.method = "GET" /\ StaticFile(req.path) \in files
    THEN Respond(Visit(req, "static"), "static", 200, StaticFile(req.path))
    ELSE PassOn(Visit(req, "static"))

StaticMw(s) ==
  /\ AtLayer(s, "static")
  /\ Only(s, Static(reqs[s], dist))

\* The catch-all's test for the requests it leaves alone.
FallbackSkips(path) == StartsWithApi(path) \/ path = <<"test-path">>

\* The production catch-all.
Fallback(req, files) ==
  IF FallbackSkips(req.path) THEN PassOn(Visit(req, "fallback"))
  ELSE IF IndexHtml \in files
    THEN Respond(Visit(req, "fallback"), "fallback", 200, IndexHtml)
  ELSE Respond(Visit(req, "fallback"), "fallback", 404,
               "Frontend build not found")

FallbackMw(s) ==
  /\ AtLayer(s, "fallback")
  /\ Only(s, Fallback(reqs[s], dist))

\* Express's final handler, past the last layer: 404, or the error's status
\* when it has one in 400..599 and 500 otherwise.
Final(req) ==
  IF req.err = <<>> THEN Respond(req, "final", 404, "Cannot")
  ELSE Respond(req, "final",
               IF req.err[1].status \in 400..599 THEN req.err[1].status
               ELSE 500,
               "error")

FinalHandler(s) ==
  /\ reqs[s].pc = "stack"
  /\ reqs[s].idx > Len(stack)
  /\ Only(s, Final(reqs[s]))

\* The response has been written out: morgan's listener, if attached, writes
\* the access-log line.
Finished(s) ==
  /\ reqs[s].pc = "responded"
  /\ Only(s, [reqs[s] EXCEPT !.pc = "closed",
                             !.lines = IF reqs[s].armed THEN @ + 1 ELSE @])

\* The connection is gone; the slot takes the next request.
Release(s) ==
  /\ reqs[s].pc = "closed"
  /\ Only(s, FreeSlot)

-----------------------------------------------------------------------------
(* Specifications *)

InitWith(file) ==
  /\ env \in Envs
  /\ dist \in Dists
  /\ routesFile = file
  /\ bootPc = "import"
  /\ productRoutes = <<>>
  /\ dbInit = "pending"
  /\ stack = <<>>
  /\ products = {}
  /\ nextId = 1
  /\ deleted = {}
  /\ reqs = [s \in Slots |-> FreeSlot]

\* server.js as it stands: ./routes/productRoutes.js next to it.
Init == InitWith("backend/routes/productRoutes.js")

\* server.js with the five-route router module in that place.
InitCrud == InitWith("unnamed/part_000")

Next ==
  \/ ImportRoutes
  \/ Setup
  \/ InitDBSettles
  \/ ThenCallback
  \/ \E s \in Slots : Arrive(s)
  \/ \E s \in Slots : JsonMw(s)
  \/ \E s \in Slots : CorsMw(s)
  \/ \E s \in Slots : HelmetMw(s)
  \/ \E s \in Slots : MorganMw(s)
  \/ \E s \in Slots : ArcjetMw(s)
  \/ \E s \in Slots : ProtectReturns(s)
  \/ \E s \in Slots : ProtectThrows(s)
  \/ \E s \in Slots : TestPathRoute(s)
  \/ \E s \in Slots : ProductRoutesMw(s)
  \/ \E s \in Slots : Handler(s)
  \/ \E s \in Slots : ApiTestRoute(s)
  \/ \E s \in Slots : StaticMw(s)
  \/ \E s \in Slots : FallbackMw(s)
  \/ \E s \in Slots : FinalHandler(s)
  \/ \E s \in Slots : Finished(s)
  \/ \E s \in Slots : Release(s)

Spec == Init /\ [][Next]_vars

SpecCrud == InitCrud /\ [][Next]_vars

-----------------------------------------------------------------------------
(* Properties *)

AdmissionStages == <<"json", "cors", "helmet", "morgan", "arcjet">>

DispatcherStages == {"testPath", "productRoutes", "apiTest", "static", "fallback"}

ProductHandlers ==
  {"getAllProducts", "getProducts", "getProduct", "createProduct",
   "updateProduct", "deleteProduct"}

InTrace(req, name) == \E i \in 1..Len(req.trace) : req.trace[i] = name

\* The request has its response.
Answered(req) == req.pc \in {"responded", "closed"}

\* A dispatcher stage or a route handler has run on the request.
Dispatched(req) ==
  \/ \E i \in 1..Len(req.trace) : req.trace[i] \in DispatcherStages
  \/ req.handler # "none"
  \/ req.by \in DispatcherStages \cup ProductHandlers

\* The User-Agent contains 'postman', whatever the case of its letters.
UaIsTestTool(req) ==
  req.ua # <<>> /\ Includes(ToLowerCase(req.ua[1]), Postman)

\* C1: in production every request that reaches the rate-limit/bot stage is
\* submitted to the decision service, once and at a cost of 1, whatever its
\* User-Agent, and none is passed on before the decision has come back.
C1_ProductionAlwaysProtects ==
  \A s \in Slots :
    (env = Production /\ InTrace(reqs[s], "arcjet")) =>
      /\ reqs[s].protectCalls = 1
      /\ reqs[s].requested = 1
      /\ (reqs[s].admitted \/ Dispatched(reqs[s])) => reqs[s].decision # <<>>

\* C1's case: in production a request with the test tool's User-Agent was
\* submitted, allowed and answered by a dispatcher stage.
C1_Witness ==
  \E s \in Slots :
    /\ env = Production
    /\ UaIsTestTool(reqs[s])
    /\ reqs[s].protectCalls = 1
    /\ reqs[s].by \in DispatcherStages

\* What the claim says the stage does with a decision: a status, or 0 for
\* passing the request on.
C2_Outcome(d) ==
  IF d.denied /\ d.reason.kind = "RATE_LIMIT" THEN 429
  ELSE IF d.denied THEN 403
  ELSE IF \E i \in DOMAIN d.results :
            d.results[i].reason = SpoofedBotReason THEN 403
  ELSE 0

\* C2: for every decision the stage produces exactly the outcome of the
\* table (429 for a rate-limit denial, 403 for a bot or other denial, 403 for
\* an allowed decision with a spoofed-bot sub-result, else pass on), and a
\* request it answered reaches no dispatcher stage and no route handler.
C2_DecisionOutcome ==
  \A s \in Slots :
    /\ reqs[s].decision # <<>> =>
         IF C2_Outcome(reqs[s].decision[1]) = 0
           THEN reqs[s].admitted /\ reqs[s].by # "arcjet"
           ELSE /\ Answered(reqs[s])
                /\ reqs[s].by = "arcjet"
                /\ reqs[s].status = C2_Outcome(reqs[s].decision[1])
    /\ reqs[s].by = "arcjet" =>
         /\ reqs[s].status \in {429, 403}
         /\ ~reqs[s].admitted
         /\ ~Dispatched(reqs[s])

\* C2's case: an allowed decision with a spoofed-bot sub-result was answered
\* 403 by the stage.
C2_Witness ==
  \E s \in Slots :
    /\ reqs[s].decision # <<>>
    /\ ~reqs[s].decision[1].denied
    /\ C2_Outcome(reqs[s].decision[1]) = 403
    /\ reqs[s].by = "arcjet"
    /\ reqs[s].status = 403

\* C3: a request whose call of the decision service threw is never passed
\* on as allowed: it goes to the final handler with the error, no
\* dispatcher stage or route handler runs on it, and its answer is a 5xx.
C3_ProtectFailureFailsClosed ==
  \A s \in Slots :
    reqs[s].thrown =>
      /\ ~reqs[s].admitted
      /\ ~Dispatched(reqs[s])
      /\ reqs[s].err # <<>>
      /\ IF Answered(reqs[s])
           THEN reqs[s].by = "final" /\ reqs[s].status \in 500..599
           ELSE reqs[s].pc = "stack" /\ reqs[s].idx > Len(stack)

\* C3's case: the call threw and the request has been answered 500.
C3_Witness ==
  \E s \in Slots :
    reqs[s].thrown /\ Answered(reqs[s]) /\ reqs[s].status = 500

\* The operation the claim gives a method and path under /api/products.
C4_Operation(method, path) ==
  IF path = <<"api", "products">>
    THEN IF method = "GET" THEN "list"
         ELSE IF method = "POST" THEN "create"
         ELSE "none"
  ELSE IF Len(path) = 3 /\ SubSeq(path, 1, 2) = <<"api", "products">>
    THEN IF method = "GET" THEN "get-one"
         ELSE IF method = "PUT" THEN "update"
         ELSE IF method = "DELETE" THEN "delete"
         ELSE "none"
  ELSE "none"

\* The operation a handler of the controller module performs.
C4_OperationOf(handler) ==
  CASE handler \in {"getAllProducts", "getProducts"} -> "list"
    [] handler = "getProduct" -> "get-one"
    [] handler = "createProduct" -> "create"
    [] handler = "updateProduct" -> "update"
    [] handler = "deleteProduct" -> "delete"
    [] OTHER -> "none"

\* C4: an admitted request is dispatched to the handler of its operation
\* for each of the five method and path pairs, and to no product handler
\* for any other pair.
C4_FiveEndpoints ==
  \A s \in Slots :
    (reqs[s].admitted /\ Answered(reqs[s])) =>
      C4_OperationOf(reqs[s].handler)
        = C4_Operation(reqs[s].method, reqs[s].path)

\* The id a GET /api/products/:id asks for (0 for any other request).
C5_AskedId(req) ==
  IF req.method = "GET" /\ Len(req.path) = 3
       /\ SubSeq(req.path, 1, 2) = <<"api", "products">>
    THEN ParseId(req.path[3])
    ELSE 0

C6_EarlierStageAnswers(req) ==
  \/ req.method = "GET" /\ req.path = <<"test-path">>
  \/ req.handler # "none"
  \/ req.method = "GET" /\ req.path = <<"api", "test">>
  \/ req.method = "GET" /\ StaticFile(req.path) \in dist

\* The path is below the API prefix /api/.
C6_UnderApi(path) == Len(path) >= 2 /\ path[1] = "api"

\* C6: an admitted request is answered by the SPA fallback exactly when the
\* server runs in production, no earlier dispatcher stage answers it and its
\* path is neither under /api/ nor /test-path; the answer is index.html when
\* it exists and else 404 'Frontend build not found'.  Outside production
\* such a request falls through to the final handler's 404.
C6_FallbackIffProduction ==
  \A s \in Slots :
    Answered(reqs[s]) =>
      /\ reqs[s].by = "fallback" <=>
           /\ env = Production
           /\ reqs[s].admitted
           /\ ~C6_EarlierStageAnswers(reqs[s])
           /\ ~C6_UnderApi(reqs[s].path)
           /\ reqs[s].path # <<"test-path">>
      /\ reqs[s].by = "fallback" =>
           IF IndexHtml \in dist
             THEN reqs[s].status = 200 /\ reqs[s].payload = IndexHtml
             ELSE /\ reqs[s].status = 404
                  /\ reqs[s].payload = "Frontend build not found"
      /\ (env # Production /\ reqs[s].admitted
            /\ ~C6_EarlierStageAnswers(reqs[s])) =>
           /\ reqs[s].by = "final"
           /\ reqs[s].status = 404
           /\ ~InTrace(reqs[s], "fallback")

\* C6's case: in production, with no build, the fallback answered 404.
C6_Witness ==
  \E s \in Slots :
    /\ env = Production
    /\ reqs[s].by = "fallback"
    /\ reqs[s].status = 404
    /\ reqs[s].payload = "Frontend build not found"

\* C7: the stage skips the decision service exactly when the environment
\* mode is set to a value other than production and the User-Agent is the
\* test tool's.
C7_BypassOnlyWhenExplicitlyNonProduction ==
  \A s \in Slots :
    InTrace(reqs[s], "arcjet") =>
      (reqs[s].protectCalls = 0 <=>
         (env # EnvUnset /\ env # Production /\ UaIsTestTool(reqs[s])))

\* C8: every request, once its response is out, has exactly one access-log
\* line.
C8_OneLinePerRequest ==
  \A s \in Slots : reqs[s].pc = "closed" => reqs[s].lines = 1

\* C9: the layers that ran on a request are the admission stages in their
\* order, without a gap, followed by dispatcher stages only; a request on
\* which a dispatcher stage or handler ran, or which stands at one, has been
\* passed on by the rate-limit/bot stage.
C9_AdmissionBeforeDispatch ==
  \A s \in Slots :
    /\ \A i \in 1..Len(reqs[s].trace) :
         IF i <= Len(AdmissionStages)
           THEN reqs[s].trace[i] = AdmissionStages[i]
           ELSE reqs[s].trace[i] \in DispatcherStages
    /\ Dispatched(reqs[s]) => reqs[s].admitted
    /\ (reqs[s].pc = "stack" /\ reqs[s].idx <= Len(stack)
          /\ stack[reqs[s].idx] \in DispatcherStages) => reqs[s].admitted
    /\ reqs[s].admitted =>
         SubSeq(reqs[s].trace, 1, Len(AdmissionStages)) = AdmissionStages

\* C9's case: a request went through the five admission stages and was then
\* answered by static file serving.
C9_Witness ==
  \E s \in Slots :
    /\ reqs[s].by = "static"
    /\ reqs[s].trace = AdmissionStages \o <<"static">>

\* C10: the server listens only once the CREATE TABLE statement has settled
\* (succeeded, or failed and been logged) and, in production, the catch-all
\* is on the stack; so every request in flight is handled after both.
C10_ListenAfterInit ==
  LET ready == /\ bootPc = "listening"
               /\ dbInit # "pending"
               /\ env = Production =>
                    \E i \in 1..Len(stack) : stack[i] = "fallback"
  IN /\ bootPc = "listening" => ready
     /\ \A s \in Slots : reqs[s].pc # "free" => ready

\* C10's case: a production server answered a request from its catch-all
\* after the statement had succeeded.
C10_Witness ==
  \E s \in Slots :
    /\ env = Production
    /\ dbInit = "ok"
    /\ reqs[s].by = "fallback"

====
